---- MODULE Spec2Model ----
(***************************************************************************)
(* EduBot command-line client (src/main.py): the interactive loop of main, *)
(* the retrying POST of setup_session / make_request, the line-by-line     *)
(* decoding of the streamed response body, and the mapping of transport    *)
(* failures to error records.                                              *)
(*                                                                         *)
(* Texts are sequences of one-character strings, so that strip(), lower()  *)
(* and concatenation are computed and not assumed.                         *)
(***************************************************************************)
EXTENDS Integers, Sequences, FiniteSets, TLC

VARIABLES
    pc,             \* where main is: "start", "input", "post", "response",
                    \* "stream", "finally", "exited"
    syllabus_file,  \* what open() and json.load find at SYLLABUS_FILE
    syllabus_data,  \* main's syllabus_data
    session,        \* the requests.Session: "none", "open" or "closed"
    closeCount,     \* number of calls of session.close()
    typed,          \* the line input() returned in the current turn
    user_input,     \* main's user_input (stripped) of the current turn
    data,           \* the payload create_request_data built in the current turn
    total,          \* Retry.total of the current call of session.post: the
                    \* retries it may still make
    failures,       \* the kinds of the failed attempts of that call
    status,         \* outcome of the latest POST attempt
    body,           \* lines of the response body, as iter_lines yields them
    pos,            \* number of lines of body that iter_lines has yielded
    full_response,  \* make_request's accumulator
    response_data,  \* the record make_request returned to chat_with_gpt
    response,       \* main's response: the text chat_with_gpt returned
    printed,        \* what main wrote last: a print statement or the prompt
    exc             \* the exception that left the while loop of main

vars == <<pc, syllabus_file, syllabus_data, session, closeCount, typed, user_input,
          data, total, failures, status, body, pos, full_response, response_data,
          response, printed, exc>>

\* What main loads before the loop and never assigns again.
loaded == <<syllabus_file, syllabus_data>>

\* What the turn's input has set before make_request is called.
turnInput == <<typed, user_input, data>>

\* The variables of a turn that only make_request's own steps change.
requestVars == <<turnInput, total, failures, status, body, pos, full_response>>

-----------------------------------------------------------------------------
(* Bounds of the model *)

\* Longest response body, in lines.
MaxLines == 3

-----------------------------------------------------------------------------
(* Texts *)

Whitespace == {" "}

RECURSIVE LStrip(_)
LStrip(s) == IF s # <<>> /\ Head(s) \in Whitespace THEN LStrip(Tail(s)) ELSE s

RECURSIVE RStrip(_)
RStrip(s) ==
    IF s # <<>> /\ s[Len(s)] \in Whitespace
    THEN RStrip(SubSeq(s, 1, Len(s) - 1))
    ELSE s

\* str.strip()
Strip(s) == RStrip(LStrip(s))

LowerChar(c) ==
    CASE c = "Q" -> "q" [] c = "U" -> "u" [] c = "I" -> "i" [] c = "T" -> "t"
      [] c = "B" -> "b" [] c = "Y" -> "y" [] c = "E" -> "e" [] c = "X" -> "x"
      [] c = "H" -> "h"
      [] OTHER -> c

\* str.lower()
Lower(s) == [i \in 1..Len(s) |-> LowerChar(s[i])]

\* main, line 116: the exit keywords
ExitWords == { <<"q","u","i","t">>, <<"e","x","i","t">>, <<"b","y","e">> }

\* Lines the user may type at the prompt.
TypedLines ==
    { <<"Q","U","I","T">>, <<" ","B","y","e"," ">>, <<"e","x","i","t">>,
      <<>>, <<" "," ">>, <<" ","H","i"," ">> }

\* The value of typed while input() has returned no line in the turn.
NoLine == <<"(none)">>

\* Faulty variant of IsExitKeyword: the comparison is case-sensitive.
IsExitKeywordCaseSensitive(u) == u \in ExitWords

\* user_input.lower() in ["quit", "exit", "bye"]
IsExitKeyword(u) == Lower(u) \in ExitWords

\* Faulty variant of IsBlank: the test for empty input is missing.
IsBlankNever(u) == FALSE

\* not user_input
IsBlank(u) == u = <<>>

-----------------------------------------------------------------------------
(* load_syllabus_data (lines 19-29) *)

\* What load_syllabus_data can find at SYLLABUS_FILE: no file, a file that
\* is not well-formed JSON, the JSON object {}, or a JSON object with
\* members.
FileStates == {"absent", "malformed", "empty_object", "document"}

\* The dict {}; a dict is a sequence of its items.
EmptyContext == <<>>

\* A syllabus with members.
Document == << <<"course", "algebra">> >>

\* json.load(f) of a well-formed file.
JsonLoad(f) == IF f = "document" THEN Document ELSE EmptyContext

\* Faulty variant of LoadSyllabusData: no except clause for JSONDecodeError.
LoadSyllabusDataNoJsonClause(f) ==
    CASE f = "absent"    -> [raised |-> "none", ret |-> EmptyContext]
      [] f = "malformed" -> [raised |-> "JSONDecodeError", ret |-> EmptyContext]
      [] OTHER           -> [raised |-> "none", ret |-> JsonLoad(f)]

\* What load_syllabus_data returns (ret), or the exception it lets through
\* (raised): FileNotFoundError and json.JSONDecodeError are logged and
\* answered with {}.
LoadSyllabusData(f) ==
    CASE f = "absent"    -> [raised |-> "none", ret |-> EmptyContext]
      [] f = "malformed" -> [raised |-> "none", ret |-> EmptyContext]
      [] OTHER           -> [raised |-> "none", ret |-> JsonLoad(f)]

-----------------------------------------------------------------------------
(* create_request_data (lines 31-40) *)

\* MODEL_NAME, by default
ModelName == "mistral"

\* Faulty variant of CreateRequestData: the syllabus is always attached.
CreateRequestDataAlways(prompt, ctx) ==
    [model |-> ModelName, prompt |-> prompt, syllabus |-> ctx]

\* The payload: model and prompt, and the syllabus if it is truthy.
CreateRequestData(prompt, ctx) ==
    IF ctx # EmptyContext
    THEN [model |-> ModelName, prompt |-> prompt, syllabus |-> ctx]
    ELSE [model |-> ModelName, prompt |-> prompt]

-----------------------------------------------------------------------------
(* Lines of a streamed response body *)

\* A line is described by what the decoding steps of make_request make of it:
\*   kind "empty"        the empty bytes object (a blank line)
\*   kind "undecodable"  bytes that are not valid UTF-8
\*   kind "malformed"    text that json.loads rejects
\*   kind "nonobject"    valid JSON that is no object (5, [1], "x", null)
\*   kind "object"       a JSON object; resp tells whether it has a 'response'
\*                       member ("absent"), a string one ("str", in text) or
\*                       one of another type ("other"); done is its 'done'.
Line(k, r, t, d) == [kind |-> k, resp |-> r, text |-> t, done |-> d]

EmptyLine       == Line("empty",       "absent", <<>>, FALSE)
UndecodableLine == Line("undecodable", "absent", <<>>, FALSE)
MalformedLine   == Line("malformed",   "absent", <<>>, FALSE)
NonObjectLine   == Line("nonobject",   "absent", <<>>, FALSE)

FragmentTexts == { <<"a">>, <<" ","b"," ">> }

ObjectLines ==
    { Line("object", "absent", <<>>, d) : d \in BOOLEAN }
    \cup { Line("object", "str", t, d) : t \in FragmentTexts, d \in BOOLEAN }
    \cup { Line("object", "other", <<>>, d) : d \in BOOLEAN }

Lines == {EmptyLine, UndecodableLine, MalformedLine, NonObjectLine} \cup ObjectLines

Bodies == UNION { [1..n -> Lines] : n \in 0..MaxLines }

-----------------------------------------------------------------------------
(* make_request: decoding one line of the body (lines 52-71) *)

\* json_obj.get("response", "")
Fragment(line) == IF line.resp = "absent" THEN <<>> ELSE line.text

\* Faulty variant of OnJSONDecodeError: an invalid line ends the loop.
OnJSONDecodeErrorAbort(acc) == [acc |-> acc, ctl |-> "break"]

\* except json.JSONDecodeError: log and continue with the next line.
OnJSONDecodeError(acc) == [acc |-> acc, ctl |-> "next"]

\* Faulty variant of OnDone: the done flag is ignored.
OnDoneIgnored(acc, done) == [acc |-> acc, ctl |-> "next"]

\* if json_obj.get("done", False): break
OnDone(acc, done) == [acc |-> acc, ctl |-> IF done THEN "break" ELSE "next"]

\* The body of the for loop for one line: the new accumulator and how the
\* loop goes on ("next", "break", or the name of the exception raised).
ProcessLine(acc, line) ==
    IF line.kind = "empty" THEN [acc |-> acc, ctl |-> "next"]
    ELSE IF line.kind = "undecodable" THEN [acc |-> acc, ctl |-> "UnicodeDecodeError"]
    ELSE IF line.kind = "malformed" THEN OnJSONDecodeError(acc)
    ELSE IF line.kind = "nonobject" THEN [acc |-> acc, ctl |-> "AttributeError"]
    ELSE IF line.resp = "other" THEN [acc |-> acc, ctl |-> "TypeError"]
    ELSE OnDone(acc \o Fragment(line), line.done)

\* Faulty variant of TextResult: the accumulated text is returned as it is.
TextResultUnstripped(acc) == [text |-> acc]

\* return {"text": full_response.strip()}
TextResult(acc) == [text |-> Strip(acc)]

\* The for loop as a function of the whole body, from line i on: how
\* make_request leaves it ("return" or the exception raised), the
\* accumulator, and the number of lines consumed.
RECURSIVE Iterate(_, _, _)
Iterate(acc, b, i) ==
    IF i > Len(b) THEN [ctl |-> "return", acc |-> acc, consumed |-> Len(b)]
    ELSE LET r == ProcessLine(acc, b[i]) IN
         IF r.ctl = "next" THEN Iterate(r.acc, b, i + 1)
         ELSE IF r.ctl = "break" THEN [ctl |-> "return", acc |-> r.acc, consumed |-> i]
         ELSE [ctl |-> r.ctl, acc |-> r.acc, consumed |-> i]

-----------------------------------------------------------------------------
(* make_request: the except clauses (lines 73-84) *)

HttpErrorPrefix == "HTTP error: "
ConnectionMsg == <<"Connection error. Please check if the Ollama server is running.">>
TimeoutMsg == <<"The request timed out. Please try again later.">>
UnexpectedMsg == <<"An unexpected error occurred.">>

\* The classes of requests.exceptions an exception is an instance of
\* (ConnectTimeout derives from both ConnectionError and Timeout).
Classes(e) ==
    CASE e = "HTTPError"            -> {"HTTPError", "RequestException"}
      [] e = "ConnectionError"      -> {"ConnectionError", "RequestException"}
      [] e = "ConnectTimeout"       -> {"ConnectTimeout", "ConnectionError", "Timeout",
                                        "RequestException"}
      [] e = "ReadTimeout"          -> {"ReadTimeout", "Timeout", "RequestException"}
      [] e = "RetryError"           -> {"RetryError", "RequestException"}
      [] e = "ChunkedEncodingError" -> {"ChunkedEncodingError", "RequestException"}
      [] OTHER                      -> {e}

\* str(http_err) of the HTTPError that raise_for_status raises for a status.
HttpDetail(code) ==
    CASE code = 404 -> "404 Client Error"
      [] code = 503 -> "503 Server Error"
      [] OTHER      -> "Error"

\* Faulty variant of Caught: only HTTP and connection errors are caught.
CaughtNarrow(e) == Classes(e) \cap {"HTTPError", "ConnectionError"} # {}

\* Whether one of the except clauses of make_request catches e.
Caught(e) == "RequestException" \in Classes(e)

\* Faulty variant of ErrorRecord: the message is stored under another key.
ErrorRecordMisnamed(e, code) == [message |-> UnexpectedMsg]

\* The record the first matching except clause returns, the clauses being
\* tried in the order HTTPError, ConnectionError, Timeout, RequestException.
ErrorRecord(e, code) ==
    IF "HTTPError" \in Classes(e) THEN [error |-> <<HttpErrorPrefix, HttpDetail(code)>>]
    ELSE IF "ConnectionError" \in Classes(e) THEN [error |-> ConnectionMsg]
    ELSE IF "Timeout" \in Classes(e) THEN [error |-> TimeoutMsg]
    ELSE [error |-> UnexpectedMsg]

-----------------------------------------------------------------------------
(* setup_session: the retry policy of the mounted adapter (lines 97-105) *)

\* Retry(total=5, ...)
Total == 5

StatusForcelist == {429, 500, 502, 503, 504}
AllowedMethods == {"POST"}

\* Status codes the server answers with.
ServerCodes == {200, 404, 503}

Attempt(k, c) == [k |-> k, code |-> c]
NoAttempt == Attempt("none", 0)

\* What one POST attempt can end in: a response with a status code, a
\* refused connection, or the 10 s timeout expiring while connecting or
\* while waiting for the response.
AttemptOutcomes ==
    { Attempt("status", c) : c \in ServerCodes }
    \cup { Attempt(k, 0) : k \in {"connect_error", "connect_timeout", "read_timeout"} }

\* Faulty variant of IsRetry: every error status is tried again.
IsRetryAnyErrorStatus(o) ==
    /\ "POST" \in AllowedMethods
    /\ o.k = "status" => o.code >= 400

\* Whether an attempt that ended in o is tried again (Retry.is_retry for a
\* response, the connect and read errors otherwise).
IsRetry(o) ==
    /\ "POST" \in AllowedMethods
    /\ o.k = "status" => o.code \in StatusForcelist

\* Faulty variant of IsExhausted: the loop gives up with two retries left.
IsExhaustedEarly(t) == t < 2

\* Retry.is_exhausted: whether the retry loop gives up, t being total after
\* the failed attempt has been counted. total=5 allows five retries, that
\* is six attempts.
IsExhausted(t) == t < 0

\* The exception session.post raises when the retry loop gives up after a
\* last attempt that ended in o. urllib3 raises MaxRetryError with the last
\* failure as its reason, and the adapter of requests turns it into
\* RetryError for a status of the forcelist, ConnectTimeout for a connect
\* timeout, and ConnectionError for anything else, a read timeout included.
RaisedOnExhaustion(o) ==
    CASE o.k = "status"          -> "RetryError"
      [] o.k = "connect_timeout" -> "ConnectTimeout"
      [] OTHER                   -> "ConnectionError"

\* response.raise_for_status() raises HTTPError for these.
BadStatus(code) == code >= 400 /\ code < 600

-----------------------------------------------------------------------------
(* chat_with_gpt (lines 86-92) *)

ErrorOccurredPrefix == "An error occurred: "

\* The text chat_with_gpt returns for the record rd of make_request.
ChatWithGpt(rd) ==
    IF "error" \in DOMAIN rd THEN <<ErrorOccurredPrefix>> \o rd.error
    ELSE IF "text" \in DOMAIN rd THEN Strip(rd.text)
    ELSE <<"No response text found.">>

\* No record: make_request has not returned in this turn.
Unset == [unset |-> TRUE]

-----------------------------------------------------------------------------
(* How a call of chat_with_gpt in main ends *)

\* make_request returns rd; chat_with_gpt turns it into the text that main
\* prints after "EduBot:", and the loop goes back to input().
Reply(rd) ==
    /\ response_data' = rd
    /\ response' = ChatWithGpt(rd)
    /\ printed' = "reply"
    /\ pc' = "input"
    /\ UNCHANGED <<loaded, session, closeCount, exc>>

\* Faulty variant of Propagate: the loop is left without the finally clause.
PropagateNoFinally(e) ==
    /\ exc' = e
    /\ printed' = IF e = "KeyboardInterrupt" THEN "ended" ELSE printed
    /\ pc' = "exited"
    /\ UNCHANGED <<loaded, session, closeCount, response_data, response>>

\* Exception e leaves the while loop of main: except KeyboardInterrupt
\* prints its message, any other exception passes; both reach finally.
Propagate(e) ==
    /\ exc' = e
    /\ printed' = IF e = "KeyboardInterrupt" THEN "ended" ELSE printed
    /\ pc' = "finally"
    /\ UNCHANGED <<loaded, session, closeCount, response_data, response>>

\* Faulty variant of Leave: a caught exception returns the text so far.
LeaveWithPartialText(e, code) ==
    IF Caught(e) THEN Reply([text |-> Strip(full_response)]) ELSE Propagate(e)

\* Exception e is raised inside the try block of make_request, the latest
\* status code being code.
Leave(e, code) == IF Caught(e) THEN Reply(ErrorRecord(e, code)) ELSE Propagate(e)

\* The values of the turn's variables when input() has returned line t
\* (or raised, t being NoLine) and u is its stripped text.
FreshTurn(t, u) ==
    /\ typed' = t
    /\ user_input' = u
    /\ total' = Total
    /\ failures' = {}
    /\ status' = NoAttempt
    /\ body' = <<>>
    /\ pos' = 0
    /\ full_response' = <<>>
    /\ response_data' = Unset
    /\ response' = <<>>

-----------------------------------------------------------------------------
(* main: the start (lines 109-112) *)

\* main has printed the banner; the file is in one of its states.
Init ==
    /\ pc = "start"
    /\ syllabus_file \in FileStates
    /\ syllabus_data = EmptyContext
    /\ session = "none"
    /\ closeCount = 0
    /\ typed = NoLine
    /\ user_input = <<>>
    /\ data = Unset
    /\ total = Total
    /\ failures = {}
    /\ status = NoAttempt
    /\ body = <<>>
    /\ pos = 0
    /\ full_response = <<>>
    /\ response_data = Unset
    /\ response = <<>>
    /\ printed = "banner"
    /\ exc = "none"

\* syllabus_data = load_syllabus_data(); session = setup_session(). An
\* exception of load_syllabus_data ends the process before the session
\* exists.
Startup ==
    /\ pc = "start"
    /\ LET r == LoadSyllabusData(syllabus_file) IN
         IF r.raised = "none"
         THEN /\ syllabus_data' = r.ret
              /\ session' = "open"
              /\ pc' = "input"
              /\ exc' = exc
         ELSE /\ exc' = r.raised
              /\ pc' = "exited"
              /\ UNCHANGED <<syllabus_data, session>>
    /\ UNCHANGED <<syllabus_file, closeCount, requestVars, response_data, response,
                   printed>>

-----------------------------------------------------------------------------
(* main: one pass of the while loop up to the call of chat_with_gpt
   (lines 115-122), and the first line of chat_with_gpt (line 88) *)

\* input("You: ") writes the prompt and returns a line.
ReadLine ==
    /\ pc = "input"
    /\ \E t \in TypedLines :
         LET u == Strip(t) IN
         /\ FreshTurn(t, u)
         /\ IF IsExitKeyword(u)
            THEN /\ printed' = "goodbye"
                 /\ data' = Unset
                 /\ pc' = "finally"
            ELSE IF IsBlank(u)
            THEN /\ printed' = "invalid"
                 /\ data' = Unset
                 /\ pc' = "input"
            ELSE /\ printed' = "prompt"
                 /\ data' = CreateRequestData(u, syllabus_data)
                 /\ pc' = "post"
    /\ UNCHANGED <<loaded, session, closeCount, exc>>

\* The user interrupts input() (line 115 raises KeyboardInterrupt).
InputInterrupt ==
    /\ pc = "input"
    /\ FreshTurn(NoLine, <<>>)
    /\ data' = Unset
    /\ exc' = "KeyboardInterrupt"
    /\ printed' = "ended"
    /\ pc' = "finally"
    /\ UNCHANGED <<loaded, session, closeCount>>

\* Standard input ends (line 115 raises EOFError, which nothing catches).
InputEOF ==
    /\ pc = "input"
    /\ FreshTurn(NoLine, <<>>)
    /\ data' = Unset
    /\ exc' = "EOFError"
    /\ printed' = "prompt"
    /\ pc' = "finally"
    /\ UNCHANGED <<loaded, session, closeCount>>

-----------------------------------------------------------------------------
(* make_request: session.post and raise_for_status (lines 45-49) *)

\* One attempt of the POST inside session.post, with the retry loop's
\* decision after it.
PostAttempt ==
    /\ pc = "post"
    /\ \E o \in AttemptOutcomes :
         /\ status' = o
         /\ UNCHANGED <<turnInput, body, pos, full_response>>
         /\ IF IsRetry(o)
            THEN \* a failed attempt: tried again unless the retries are used up
                 /\ total' = total - 1
                 /\ failures' = failures \cup {o}
                 /\ IF IsExhausted(total - 1)
                    THEN Leave(RaisedOnExhaustion(o), o.code)
                    ELSE /\ pc' = "post"
                         /\ UNCHANGED <<loaded, session, closeCount, response_data,
                                        response, printed, exc>>
            ELSE \* session.post returns the response
                 /\ pc' = "response"
                 /\ UNCHANGED <<total, failures, loaded, session, closeCount,
                                response_data, response, printed, exc>>

\* response.raise_for_status() raises for an error status.
RaiseForStatus ==
    /\ pc = "response"
    /\ BadStatus(status.code)
    /\ Leave("HTTPError", status.code)
    /\ UNCHANGED requestVars

\* raise_for_status() passes; full_response is initialised and the loop
\* over the body begins. The body is whatever the server streams. The
\* Retry object of session.post is not used again.
OpenBody ==
    /\ pc = "response"
    /\ ~BadStatus(status.code)
    /\ \E b \in Bodies : body' = b
    /\ pos' = 0
    /\ full_response' = <<>>
    /\ total' = Total
    /\ failures' = {}
    /\ pc' = "stream"
    /\ UNCHANGED <<loaded, session, closeCount, turnInput, status,
                   response_data, response, printed, exc>>

-----------------------------------------------------------------------------
(* make_request: the loop over response.iter_lines() (lines 49-72) *)

\* iter_lines yields the next line and the loop body runs on it.
IterLine ==
    /\ pc = "stream"
    /\ pos < Len(body)
    /\ LET r == ProcessLine(full_response, body[pos + 1]) IN
         /\ pos' = pos + 1
         /\ full_response' = r.acc
         /\ UNCHANGED <<turnInput, total, failures, status, body>>
         /\ IF r.ctl = "next"
            THEN /\ pc' = "stream"
                 /\ UNCHANGED <<loaded, session, closeCount, response_data, response,
                                printed, exc>>
            ELSE IF r.ctl = "break"
            THEN Reply(TextResult(r.acc))
            ELSE Leave(r.ctl, status.code)

\* iter_lines is exhausted: the loop ends and line 72 returns.
StreamEnd ==
    /\ pc = "stream"
    /\ pos = Len(body)
    /\ Reply(TextResult(full_response))
    /\ UNCHANGED requestVars

\* The transport fails while iter_lines waits for more of the body: the
\* connection breaks (ChunkedEncodingError) or the read times out
\* (ConnectionError).
StreamFault ==
    /\ pc = "stream"
    /\ \E e \in {"ChunkedEncodingError", "ConnectionError"} : Leave(e, status.code)
    /\ UNCHANGED requestVars

\* The user interrupts while the request is in flight.
RequestInterrupt ==
    /\ pc \in {"post", "response", "stream"}
    /\ Propagate("KeyboardInterrupt")
    /\ UNCHANGED requestVars

-----------------------------------------------------------------------------
(* main: the finally clause (line 127) *)

Finally ==
    /\ pc = "finally"
    /\ session' = "closed"
    /\ closeCount' = closeCount + 1
    /\ pc' = "exited"
    /\ UNCHANGED <<loaded, requestVars, response_data, response, printed, exc>>

-----------------------------------------------------------------------------

Next ==
    \/ Startup
    \/ ReadLine
    \/ InputInterrupt
    \/ InputEOF
    \/ PostAttempt
    \/ RaiseForStatus
    \/ OpenBody
    \/ IterLine
    \/ StreamEnd
    \/ StreamFault
    \/ RequestInterrupt
    \/ Finally

Spec == Init /\ [][Next]_vars

\* The finally clause runs once control has reached it.
FairSpec == Spec /\ WF_vars(Finally)

-----------------------------------------------------------------------------
(* Vocabulary of the properties *)

\* The text a line contributes: its 'response' member, "" when it has none.
FieldText(line) == IF line.resp = "str" THEN line.text ELSE <<>>

\* The texts of the lines of b, concatenated in order.
RECURSIVE ConcatFields(_)
ConcatFields(b) ==
    IF b = <<>> THEN <<>> ELSE FieldText(Head(b)) \o ConcatFields(Tail(b))

\* A fragment: a JSON object whose 'response', if any, is a string.
IsFragment(line) == line.kind = "object" /\ line.resp # "other"

NonEmptyLines(b) == SelectSeq(b, LAMBDA l : l.kind # "empty")

\* Exceptions of the decoding steps that no except clause names.
DecodeFaults == {"UnicodeDecodeError", "AttributeError", "TypeError"}

\* The turn's request ended in the decoding of the body: make_request
\* returned its text, or a decoding step raised.
Decoded == "text" \in DOMAIN response_data \/ exc \in DecodeFaults

\* make_request ended as the loop result r says, having consumed n lines.
EndedAs(r, n) ==
    /\ r.ctl = "return" => response_data = [text |-> Strip(r.acc)] /\ exc = "none"
    /\ r.ctl # "return" => response_data = Unset /\ exc = r.ctl
    /\ n = r.consumed

OK200 == Attempt("status", 200)
Unavailable503 == Attempt("status", 503)
Timeouts == {Attempt("connect_timeout", 0), Attempt("read_timeout", 0)}

\* Attempts of the current call of session.post that failed.
FailedAttempts == Total - total

\* The turn ended because the retry loop gave up.
GaveUp == "error" \in DOMAIN response_data /\ IsRetry(status) /\ status.k # "none"

-----------------------------------------------------------------------------
(* C1 *)

\* Every non-empty line is a fragment and the last one has done=true.
WellFormedStream(b) ==
    LET ne == NonEmptyLines(b) IN
    /\ ne # <<>>
    /\ \A i \in 1..Len(ne) : IsFragment(ne[i])
    /\ ne[Len(ne)].done

\* ... and no line before the last has done=true.
DoneOnlyLast(b) ==
    LET ne == NonEmptyLines(b) IN \A i \in 1..(Len(ne) - 1) : ~ne[i].done

-----------------------------------------------------------------------------
(* C2 *)

\* C2: once a fragment with done=true has been processed, no further line
\* of the stream is consumed; the returned text includes that fragment's
\* text and nothing of the lines after it.
C2_DoneStopsConsumption ==
    /\ \A i \in 1..pos :
         (IsFragment(body[i]) /\ body[i].done) => (i = pos /\ pc # "stream")
    /\ ( /\ "text" \in DOMAIN response_data
         /\ pos > 0
         /\ IsFragment(body[pos]) /\ body[pos].done )
       => response_data = [text |-> Strip(ConcatFields(SubSeq(body, 1, pos)))]

\* The stream A, B/done, C has been answered with "a b": C stays unread.
C2_Witness ==
    /\ Len(body) = 3 /\ pos = 2
    /\ body[1] = Line("object", "str", <<"a">>, FALSE)
    /\ body[2] = Line("object", "str", <<" ","b"," ">>, TRUE)
    /\ body[3] = Line("object", "str", <<"a">>, FALSE)
    /\ response_data = [text |-> <<"a", " ", "b">>]
    /\ pc = "input"

-----------------------------------------------------------------------------
(* C3 *)

RemoveMalformed(b) == SelectSeq(b, LAMBDA l : l.kind # "malformed")

MalformedAmong(b, n) == Cardinality({ i \in 1..n : b[i].kind = "malformed" })

\* C3: make_request ends on a stream as it ends on the same stream without
\* its malformed lines: the same text or the same fault, after consuming the
\* same lines apart from the malformed ones.
C3_MalformedLinesAreNoOps ==
    Decoded =>
        EndedAs(Iterate(<<>>, RemoveMalformed(body), 1),
                pos - MalformedAmong(body, pos))

\* A malformed line between two fragments has been skipped: "a", junk,
\* " b "/done gave "a b".
C3_Witness ==
    /\ Len(body) = 3 /\ pos = 3
    /\ body[2] = MalformedLine
    /\ response_data = [text |-> <<"a", " ", "b">>]

-----------------------------------------------------------------------------
(* C4 *)

AsMalformed(b) ==
    [i \in 1..Len(b) |-> IF b[i].kind = "undecodable" THEN MalformedLine ELSE b[i]]

\* C4: a line that does not decode as text is handled as a line that does
\* not parse as JSON: make_request ends on a stream as it ends on the same
\* stream with each undecodable line replaced by a malformed one.
C4_UndecodableHandledAsMalformed ==
    Decoded => EndedAs(Iterate(<<>>, AsMalformed(body), 1), pos)

-----------------------------------------------------------------------------
(* C5 *)

\* C5: whatever the lines of the body are, make_request ends by returning a
\* record: no fault of a line leaves it. (Stated for bodies whose lines all
\* decode as text; the undecodable ones are C4's.)
C5_NoLineFaultLeavesMakeRequest ==
    (\A i \in 1..Len(body) : body[i].kind # "undecodable")
        => exc \notin DecodeFaults

-----------------------------------------------------------------------------
(* C6 *)

\* C6: at most four retriable failures followed by a 200 give the text of
\* the 200 response: the retry loop does not give up before a fifth failure,
\* nothing has been surfaced when the 200 response arrives, and a returned
\* text is decoded from the body of a 200 response.
C6_FourFailuresThenSuccess ==
    /\ GaveUp => FailedAttempts > 4
    /\ (pc = "response" /\ status = OK200)
         => response_data = Unset /\ exc = "none" /\ FailedAttempts <= Total
    /\ "text" \in DOMAIN response_data
         => /\ status = OK200
            /\ response = Strip(ConcatFields(SubSeq(body, 1, pos)))
            /\ printed = "reply"

\* The server has answered 503 four times and now 200.
C6_Witness ==
    /\ pc = "response"
    /\ status = OK200
    /\ failures = {Unavailable503}
    /\ FailedAttempts = 4

-----------------------------------------------------------------------------
(* C7 *)

\* POSTs sent so far by the current call of session.post.
Attempts == FailedAttempts + (IF pc = "response" THEN 1 ELSE 0)

\* C7: a turn in which every POST is answered 503 ends with the record
\* "HTTP error: <detail>" after exactly 5 attempts, and no turn makes more
\* than 5 attempts.
C7_Http503AfterFiveAttempts ==
    /\ Attempts <= 5
    /\ (GaveUp /\ failures = {Unavailable503})
         => /\ response_data.error[1] = HttpErrorPrefix
            /\ FailedAttempts = 5

-----------------------------------------------------------------------------
(* C8 *)

\* C8: a turn in which every attempt times out ends with the retry-later
\* message.
C8_TimeoutMessage ==
    (GaveUp /\ failures \subseteq Timeouts)
        => response_data = [error |-> TimeoutMsg]

-----------------------------------------------------------------------------
(* C9 *)

RequestsExceptions ==
    {"HTTPError", "ConnectionError", "ConnectTimeout", "ReadTimeout", "RetryError",
     "ChunkedEncodingError"}

\* C9: a failed request never ends the process: no exception of the
\* transport leaves the loop, and after a turn whose request failed the text
\* printed starts with "An error occurred: ", the session is open and the
\* loop is back at input().
C9_RequestErrorsKeepLoopRunning ==
    /\ exc \notin RequestsExceptions
    /\ "error" \in DOMAIN response_data
         => /\ pc = "input"
            /\ printed = "reply"
            /\ response = <<ErrorOccurredPrefix>> \o response_data.error
            /\ session = "open" /\ closeCount = 0
            /\ exc = "none"
            /\ ENABLED ReadLine

\* The retries ran out on 503 answers; the loop waits for the next prompt.
C9_Witness ==
    /\ GaveUp
    /\ status = Unavailable503
    /\ pc = "input"
    /\ response = <<ErrorOccurredPrefix>> \o UnexpectedMsg

-----------------------------------------------------------------------------
(* C10 *)

\* C10: however the loop ends, session.close() is eventually called, it is
\* called once, and no request is made on the closed session.
C10_SessionReleasedOnEveryExit ==
    /\ [](closeCount <= 1)
    /\ [](pc = "exited" => closeCount = 1 /\ session = "closed")
    /\ [](session = "closed" => pc = "exited")
    /\ [][session = "closed" => (session' = "closed" /\ ~PostAttempt)]_vars
    /\ (pc = "finally" ~> (closeCount = 1 /\ session = "closed"))

\* The user interrupted while the body was being read; the session has been
\* closed.
C10_Witness ==
    /\ pc = "exited"
    /\ exc = "KeyboardInterrupt"
    /\ pos > 0
    /\ closeCount = 1 /\ session = "closed"

-----------------------------------------------------------------------------
(* C11 *)

\* C11: the payload of every turn has the model and the prompt; it has the
\* 'syllabus' member exactly when the file held a document with members,
\* and then the member is that document; the loaded context is the same in
\* every turn.
C11_PayloadFields ==
    /\ pc # "start"
         => syllabus_data = (IF syllabus_file = "document" THEN Document ELSE <<>>)
    /\ pc \in {"post", "response", "stream"} => data # Unset
    /\ data # Unset
         => /\ {"model", "prompt"} \subseteq DOMAIN data
            /\ data.model = ModelName
            /\ data.prompt = <<"H", "i">>
            /\ ("syllabus" \in DOMAIN data) <=> (syllabus_file = "document")
            /\ "syllabus" \in DOMAIN data => data.syllabus = Document

\* A request that carries the syllabus is being answered.
C11_Witness ==
    /\ pc = "stream"
    /\ syllabus_file = "document"
    /\ data = [model |-> ModelName, prompt |-> <<"H", "i">>, syllabus |-> Document]

-----------------------------------------------------------------------------
(* C12 *)

\* The line consists of whitespace only, or of nothing.
BlankTyped == typed # NoLine /\ \A i \in 1..Len(typed) : typed[i] = " "

\* C12: a line that is empty after trimming never reaches the request
\* pipeline: no payload is built, no POST is made, and the loop is back at
\* input().
C12_BlankInputNeverReachesPipeline ==
    BlankTyped
        => /\ pc = "input"
           /\ printed = "invalid"
           /\ data = Unset
           /\ status = NoAttempt /\ total = Total /\ failures = {}
           /\ body = <<>> /\ response_data = Unset
           /\ session = "open"
           /\ ENABLED ReadLine

\* Two blanks have been typed and answered with the request for valid input.
C12_Witness ==
    /\ typed = <<" ", " ">>
    /\ printed = "invalid"
    /\ pc = "input"

-----------------------------------------------------------------------------
(* C13 *)

\* The lines of TypedLines that are an exit keyword once trimmed and
\* case-folded.
ExitTyped == { <<"Q","U","I","T">>, <<" ","B","y","e"," ">>, <<"e","x","i","t">> }

\* C13: an exit keyword, in any case and with surrounding whitespace, ends
\* the loop: no payload is built and no POST made for it, and no further
\* input is read.
C13_ExitKeywordEndsLoop ==
    typed \in ExitTyped
        => /\ pc \in {"finally", "exited"}
           /\ printed = "goodbye"
           /\ data = Unset
           /\ status = NoAttempt /\ total = Total /\ failures = {}
           /\ body = <<>> /\ response_data = Unset
           /\ exc = "none"
           /\ ~ENABLED ReadLine

\* " Bye " has ended the loop and the process.
C13_Witness ==
    /\ typed = <<" ","B","y","e"," ">>
    /\ pc = "exited"
    /\ printed = "goodbye"

-----------------------------------------------------------------------------
(* C14 *)

-----------------------------------------------------------------------------
(* C15 *)

\* No line of b is an object with done=true.
NeverDone(b) == \A i \in 1..Len(b) : ~(b[i].kind = "object" /\ b[i].done)

\* C15: on a stream in which no fragment sets done=true, make_request
\* consumes every line and returns the stripped concatenation of the texts
\* of its valid lines, which is the empty text when no line is valid.
C15_StreamWithoutDoneIsDrained ==
    (Decoded /\ NeverDone(body))
        => /\ pos = Len(body)
           /\ response_data = [text |-> Strip(ConcatFields(body))]

-----------------------------------------------------------------------------
(* C16 *)

RetrySet == {429, 500, 502, 503, 504}

\* The latest attempt got an error status outside the retry set.
NonRetryErrorStatus ==
    status.k = "status" /\ status.code >= 400 /\ status.code \notin RetrySet

-----------------------------------------------------------------------------
(* C17 *)

\* C17: when the transport fails while the body of a 200 response is being
\* consumed, make_request returns an error record and nothing else: the
\* answer printed is the error message, and a text is returned only for a
\* stream consumed to its end or to a fragment with done=true.
C17_TransportFailureDiscardsPartialText ==
    /\ ("error" \in DOMAIN response_data /\ status = OK200)
         => /\ response_data \in {[error |-> ConnectionMsg], [error |-> UnexpectedMsg]}
            /\ response = <<"An error occurred: ">> \o response_data.error
            /\ printed = "reply"
    /\ "text" \in DOMAIN response_data
         => \/ pos = Len(body)
            \/ pos > 0 /\ body[pos].kind = "object" /\ body[pos].done

\* The connection broke after one of three lines, "a" being accumulated:
\* the turn's answer is the unexpected-error message.
C17_Witness ==
    /\ status = OK200
    /\ Len(body) = 3 /\ pos = 1
    /\ full_response = <<"a">>
    /\ response_data = [error |-> UnexpectedMsg]
    /\ response = <<"An error occurred: ", "An unexpected error occurred.">>
    /\ pc = "input"

-----------------------------------------------------------------------------
(* C18 *)

\* C18: a record of make_request has exactly one of the keys 'text' and
\* 'error'; chat_with_gpt never returns "No response text found."; and an
\* empty accumulated text is answered with the empty string, not an error.
C18_ExactlyOneOfTextAndError ==
    /\ response_data # Unset => DOMAIN response_data \in {{"text"}, {"error"}}
    /\ response # <<"No response text found.">>
    /\ (response_data # Unset /\ status = OK200 /\ pos = Len(body)
            /\ full_response = <<>> /\ exc = "none" /\ "error" \notin DOMAIN response_data)
         => response_data = [text |-> <<>>] /\ response = <<>> /\ printed = "reply"

\* A 200 response of two lines without text has been answered with "".
C18_Witness ==
    /\ status = OK200
    /\ Len(body) = 2 /\ pos = 2
    /\ response_data = [text |-> <<>>]
    /\ response = <<>>
    /\ printed = "reply"

====
